---- MODULE Spec2Model ----
(***************************************************************************)
(* FLOAT translation backend: the WebSocket session/protocol layer of      *)
(* backend/main.py and the translation gateway of                          *)
(* backend/translation_processor.py.                                       *)
(*                                                                         *)
(* Spec        the server: connections, the message loop, the registries,  *)
(*             within one sleep of session_cleanup_task.                   *)
(* SpecCleanup the server with session_cleanup_task, over several sleeps,  *)
(*             the clients sending fewer kinds of unit.                    *)
(* SpecGateway SeamlessM4TProcessor.translate_audio called on its own.     *)
(* SpecAudio   the sample arithmetic of the processor applied to buffers.  *)
(* SpecBroadcast  the server with WebSocketManager.broadcast_keepalive     *)
(*             called on it.                                               *)
(* SpecOpen    the server with a handshake whose accept fails, and client  *)
(*             keepalives with and without audio.                          *)
(***************************************************************************)
EXTENDS Integers, Sequences, FiniteSets, TLC

VARIABLES
    pc,                  \* per connection: position in websocket_endpoint
    path_id,             \* per connection: the {session_id} of its path
    peer,                \* per connection: is the client side still there
    close_frame,         \* per connection: close code/reason sent by the server
    outbox,              \* per connection: texts delivered by websocket.send_text
    active_connections,  \* WebSocketManager.active_connections (dict)
    session_metadata,    \* WebSocketManager.session_metadata (dict)
    active_sessions,     \* module global active_sessions (dict)
    connection_stats,    \* module global connection_stats
    data,                \* how the last wait at receive_text (or call) ended, and where
    waits,               \* number of waits at receive_text that have ended
    now,                 \* what datetime.utcnow() returns, in seconds
    engine,              \* how the remote engine answers attempt 1, 2, 3
    g_pc,                \* SpecGateway: position of the direct translate call
    g_in,                \* SpecGateway: arguments of the call
    g_out,               \* SpecGateway: what the call returned or raised
    a_pcm,               \* SpecAudio: the PCM buffer at hand
    a_in,                \* SpecAudio: the buffer the last step was given
    stage,               \* SpecAudio: the last step applied
    passes               \* SpecAudio: number of steps applied

vars == << pc, path_id, peer, close_frame, outbox, active_connections,
           session_metadata, active_sessions, connection_stats, data,
           waits, now, engine, g_pc, g_in, g_out, a_pcm, a_in, stage, passes >>

server_vars == << pc, path_id, peer, close_frame, outbox, active_connections,
                  session_metadata, active_sessions, connection_stats, data,
                  waits, now >>

audio_vars == << a_pcm, a_in, stage, passes >>

gateway_vars == << g_pc, g_in, g_out, audio_vars >>

(***************************************************************************)
(* Bounds of the model.                                                    *)
(***************************************************************************)
MaxWaits == 2

\* How many times the sleep of session_cleanup_task elapses.
MaxSleeps == 6

\* How many steps SpecAudio applies to a buffer.
MaxPasses == 2

\* The connections: two, so that a session id can be used twice.
Conns == {1, 2}

(***************************************************************************)
(* Session id tokens.  uuid.UUID(s) raises ValueError unless s is the text *)
(* of a UUID; the tokens of UuidTokens stand for such texts, the tokens of *)
(* MalformedTokens for texts uuid.UUID rejects.                            *)
(***************************************************************************)
UuidTokens == {"u1", "u2"}
MalformedTokens == {"bad"}
PathIds == UuidTokens \cup MalformedTokens

UuidValid_accept_all(s) == TRUE

UuidValid(s) == s \in UuidTokens

(***************************************************************************)
(* Python values.  An optional value is <<>> (None) or <<v>>.  A JSON      *)
(* value whose type the code inspects is a one-field record named after    *)
(* its type: [str |-> "pcm"], [int |-> 7].                                 *)
(***************************************************************************)
None == << >>
Some(v) == << v >>

Get(d, key, default) == IF key \in DOMAIN d THEN d[key] ELSE default

DictSet(d, k, v) == [i \in DOMAIN d \cup {k} |-> IF i = k THEN v ELSE d[i]]

DictDel(d, k) == [i \in DOMAIN d \ {k} |-> d[i]]

EmptyDict == [i \in {} |-> None]

(***************************************************************************)
(* translation_processor.py: the translation gateway.                      *)
(***************************************************************************)
language_mapping == {"en", "hi", "bn", "te", "ta", "mr", "gu", "kn", "ml",
                     "pa", "ur", "as", "or", "sd", "zh", "ar", "fr", "de",
                     "es", "pt", "ru", "ja", "ko"}

\* Language codes the model sends: two supported ones and one that is not.
Langs == {"en", "hi", "xx"}

_is_language_supported_source_only(source_language, target_language) ==
    source_language \in language_mapping

_is_language_supported(source_language, target_language) ==
    LET source_supported == source_language \in language_mapping
        target_supported == target_language \in language_mapping
    IN  ~(~source_supported \/ ~target_supported)

\* Payload texts the model sends as audio_data, with what base64.b64decode
\* makes of each: whether it decodes, and to how many bytes.
AudioTokens == {"pcm", "short", "odd", "notb64"}

b64decode(audio_data) ==
    CASE audio_data = "pcm"    -> [ok |-> TRUE,  nbytes |-> 64]
      [] audio_data = "short"  -> [ok |-> TRUE,  nbytes |-> 8]
      [] audio_data = "odd"    -> [ok |-> TRUE,  nbytes |-> 33]
      [] OTHER                 -> [ok |-> FALSE, nbytes |-> 0]

_preprocess_audio_never_raises(nbytes) ==
    [raised |-> "", nbytes |-> 2 * (nbytes \div 2)]
\* _preprocess_audio raises ProcessorError for whatever a stage raises:
\* np.frombuffer(dtype=int16) needs a whole number of 2-byte samples;
\* signal.filtfilt needs more samples than its padlen, 3 * max(len(a), len(b)):
\* 3 * 2 for the first-order high-pass, 3 * 5 for the second-order band-pass;
\* signal.butter needs its digital critical frequencies strictly between 0
\* and 1, and _apply_bandpass_filter hands it bandpass_high_freq / nyquist,
\* 8000 / 8000 as the processor is configured (lines 67-80).
\* The result has as many bytes as the input.
_preprocess_audio(nbytes) ==
    LET samples == nbytes \div 2
        enable_noise_suppression == TRUE
        enable_bandpass_filter == TRUE
        sample_rate == 16000
        bandpass_low_freq == 80
        bandpass_high_freq == 8000
        nyquist == sample_rate \div 2
    IN  IF \/ nbytes % 2 # 0
           \/ (enable_noise_suppression /\ ~(samples > 3 * 2))
           \/ (enable_bandpass_filter
                 /\ ~(0 < bandpass_low_freq /\ bandpass_high_freq < nyquist))
           \/ (enable_bandpass_filter /\ ~(samples > 3 * 5))
           \/ samples = 0
        THEN [raised |-> "ProcessorError", nbytes |-> 0]
        ELSE [raised |-> "", nbytes |-> 2 * samples]

max_retries == 3

\* What one POST to the engine can do.  Everything but "ok" raises inside the
\* try of the retry loop: a transport failure, the 60 s ClientTimeout, a
\* response that is not ok (ProcessorError "API request failed"), a response
\* without "audio_chunks" (ProcessorError "Failed to parse API response").
Responses == {"ok", "transport_error", "timeout", "http_error", "no_audio"}

EngineScripts == [1..max_retries -> Responses]

\* The names the body of _translate_with_seamless_m4t reads while it builds
\* payload and headers (lines 320-341), and the names bound at that point.
\* Line 333 reads `false`, which nothing binds: NameError.
PayloadNames == {"audio_data", "audio_base64", "source_language",
                 "target_language", "self", "base64", "false"}

BoundNames == {"self", "audio_data", "source_language", "target_language",
               "audio_base64", "base64", "aiohttp", "asyncio", "True",
               "False", "None"}

PayloadBuilds == PayloadNames \subseteq BoundNames

\* for attempt in range(max_retries): ... (lines 343-365), from `attempt` on,
\* with the sleeps made so far.
RECURSIVE RetryLoop(_, _, _)
RetryLoop(attempt, script, delays) ==
    IF script[attempt + 1] = "ok"
    THEN [raised |-> "", message |-> "",
          engine_calls |-> attempt + 1, delays |-> delays]
    ELSE IF attempt < max_retries - 1
         THEN RetryLoop(attempt + 1, script, Append(delays, 1 * (attempt + 1)))
         ELSE [raised |-> "ProcessorError",
               message |-> "Translation failed after 3 attempts",
               engine_calls |-> attempt + 1, delays |-> delays]

_translate_with_seamless_m4t(script) ==
    IF ~PayloadBuilds
    THEN [raised |-> "NameError", message |-> "name 'false' is not defined",
          engine_calls |-> 0, delays |-> << >>]
    ELSE RetryLoop(0, script, << >>)

Raise(message, t) ==
    [raised |-> "ProcessorError", message |-> message,
     engine_calls |-> t.engine_calls, delays |-> t.delays,
     is_final |-> FALSE, confidence |-> 0, text_bytes |-> 0,
     processing_time_ms |-> 0]

NoCall == [engine_calls |-> 0, delays |-> << >>]

RECURSIVE Sum(_)
Sum(s) == IF s = << >> THEN 0 ELSE Head(s) + Sum(Tail(s))

\* translate_audio (lines 153-226).  confidence is in hundredths (0.85 is
\* 85); processing_time_ms counts the backoff sleeps only, an attempt itself
\* taking no time in the model.
translate_audio(audio_data, source_language, target_language, is_loaded, script) ==
    IF ~is_loaded
    THEN Raise("SeamlessM4T processor not initialized", NoCall)
    ELSE IF ~_is_language_supported(source_language, target_language)
    THEN Raise("Unsupported language pair", NoCall)
    ELSE LET audio_bytes == b64decode(audio_data) IN
    IF ~audio_bytes.ok
    THEN Raise("S2S translation failed", NoCall)
    ELSE LET preprocessed_audio == _preprocess_audio(audio_bytes.nbytes) IN
    IF preprocessed_audio.raised # ""
    THEN Raise("Audio preprocessing failed", NoCall)
    ELSE LET t == _translate_with_seamless_m4t(script) IN
    IF t.raised = "ProcessorError"
    THEN Raise(t.message, t)
    ELSE IF t.raised # ""
    THEN Raise("S2S translation failed", t)
    ELSE [raised |-> "", message |-> "",
          engine_calls |-> t.engine_calls, delays |-> t.delays,
          is_final |-> TRUE, confidence |-> 85,
          text_bytes |-> preprocessed_audio.nbytes,
          processing_time_ms |-> 1000 * Sum(t.delays)]

(***************************************************************************)
(* translation_processor.py: the sample arithmetic.  A PCM buffer is the   *)
(* sequence of its int16 samples.  The float32 array numpy makes of it is  *)
(* [den, nums], sample i being nums[i] / den of full scale; the model      *)
(* keeps these fractions exact where float32 rounds them.                  *)
(***************************************************************************)
Abs(x) == IF x < 0 THEN -x ELSE x

Max(S) == CHOOSE x \in S : \A y \in S : y <= x

\* a * b = q * c + r with 0 <= r < c, for a, b >= 0 and c > 0, without a
\* product beyond 32 bits.
RECURSIVE MulDivMod(_, _, _)
MulDivMod(a, b, c) ==
    IF b = 0
    THEN [q |-> 0, r |-> 0]
    ELSE LET h == MulDivMod(a, b \div 2, c)
             r2 == 2 * h.r + (b % 2) * (a % c)
         IN  [q |-> 2 * h.q + (b % 2) * (a \div c) + r2 \div c, r |-> r2 % c]

\* np.frombuffer(.., dtype=np.int16).astype(np.float32) / 32768.0
frombuffer_int16(pcm) == [den |-> 32768, nums |-> pcm]

\* (audio * 32767.0).astype(np.int16): the cast drops the fraction.
astype_int16(audio) ==
    [i \in 1..Len(audio.nums) |->
        LET q == MulDivMod(Abs(audio.nums[i]), 32767, audio.den).q
        IN  IF audio.nums[i] < 0 THEN -q ELSE q]

\* np.max(np.abs(audio)), as a numerator over audio.den
max_abs(audio) == Max({Abs(audio.nums[i]) : i \in 1..Len(audio.nums)})

_normalize_audio_to_full_scale(audio) ==
    IF Len(audio.nums) = 0
    THEN [raised |-> "ValueError", audio |-> audio]
    ELSE LET max_amplitude == max_abs(audio) IN
         IF max_amplitude = 0
         THEN [raised |-> "", audio |-> audio]
         ELSE [raised |-> "",
               audio |-> [den |-> 10 * max_amplitude,
                          nums |-> [i \in 1..Len(audio.nums) |-> 10 * audio.nums[i]]]]
\* _normalize_audio (lines 301-309); np.max raises ValueError on an array
\* without elements.
_normalize_audio(audio) ==
    IF Len(audio.nums) = 0
    THEN [raised |-> "ValueError", audio |-> audio]
    ELSE LET max_amplitude == max_abs(audio) IN
         IF max_amplitude = 0
         THEN [raised |-> "", audio |-> audio]
         ELSE \* scale = 0.8 / max_amplitude; audio * scale
              [raised |-> "",
               audio |-> [den |-> 10 * max_amplitude,
                          nums |-> [i \in 1..Len(audio.nums) |-> 8 * audio.nums[i]]]]

\* _apply_peak_safety_normalization (lines 403-417)
_apply_peak_safety_normalization(audio) ==
    IF Len(audio.nums) = 0
    THEN audio
    ELSE LET peak_amplitude == max_abs(audio) IN
         \* peak_amplitude > 0.95
         IF 100 * peak_amplitude > 95 * audio.den
         THEN \* scale = 0.95 / peak_amplitude; audio * scale
              [den |-> 100 * peak_amplitude,
               nums |-> [i \in 1..Len(audio.nums) |-> 95 * audio.nums[i]]]
         ELSE audio

\* _postprocess_audio (lines 379-401), on a whole number of samples
_postprocess_audio(pcm) ==
    astype_int16(_apply_peak_safety_normalization(frombuffer_int16(pcm)))

\* _preprocess_audio (lines 242-259) with the three optional stages switched
\* off: frombuffer, _normalize_audio, back to int16.
normalize_stage(pcm) ==
    LET normalized == _normalize_audio(frombuffer_int16(pcm)) IN
    IF normalized.raised # ""
    THEN [raised |-> "ProcessorError", pcm |-> << >>]
    ELSE [raised |-> "", pcm |-> astype_int16(normalized.audio)]

(***************************************************************************)
(* main.py: outbound messages.  A message is the dict handed to            *)
(* json.dumps: a record with exactly the keys the code puts in it.         *)
(* timestamp stands for int(time.time() * 1000).                           *)
(***************************************************************************)
welcome_message(session_id) ==
    [session_id |-> session_id, message_type |-> "connected",
     timestamp |-> "epoch_ms"]

keepalive_message_as_welcome(session_id) ==
    [session_id |-> session_id, message_type |-> "connected",
     timestamp |-> "epoch_ms"]
keepalive_message(session_id) ==
    [session_id |-> session_id, message_type |-> "keepalive",
     timestamp |-> "epoch_ms"]

ack_message(session_id, sequence_id) ==
    [session_id |-> session_id, message_type |-> "ack",
     ack_sequence_id |-> sequence_id, timestamp |-> "epoch_ms"]

error_message(session_id, error_code, text) ==
    [session_id |-> session_id, message_type |-> "error",
     error_code |-> error_code, error_message |-> text,
     timestamp |-> "epoch_ms"]

response_message(session_id, chunk_index, sequence_id, r) ==
    IF r.is_final
    THEN [session_id |-> session_id, message_type |-> "final_transcript",
          chunk_index |-> chunk_index, sequence_id |-> sequence_id,
          final_transcript |-> [placeholder_bytes |-> r.text_bytes],
          confidence |-> r.confidence,
          processing_time_ms |-> r.processing_time_ms,
          timestamp |-> "epoch_ms"]
    ELSE [session_id |-> session_id, message_type |-> "partial_transcript",
          chunk_index |-> chunk_index, sequence_id |-> sequence_id,
          partial_transcript |-> [placeholder_bytes |-> r.text_bytes],
          confidence |-> r.confidence,
          processing_time_ms |-> r.processing_time_ms,
          timestamp |-> "epoch_ms"]

(***************************************************************************)
(* main.py: WebSocketManager.  The methods run on st, the record of what   *)
(* they read and write: ac (active_connections), md (session_metadata),    *)
(* stats (connection_stats), out (what each websocket was sent), and       *)
(* peer (read only: whether send_text on a websocket still succeeds), and  *)
(* now (read only: datetime.utcnow()).                                     *)
(***************************************************************************)
disconnect_keeps_metadata(st, session_id) ==
    LET ac == IF session_id \in DOMAIN st.ac
              THEN DictDel(st.ac, session_id) ELSE st.ac
    IN  [st EXCEPT !.ac = ac,
                   !.stats.active_connections = Cardinality(DOMAIN ac)]
disconnect(st, session_id) ==
    LET ac == IF session_id \in DOMAIN st.ac
              THEN DictDel(st.ac, session_id) ELSE st.ac
        md == IF session_id \in DOMAIN st.md
              THEN DictDel(st.md, session_id) ELSE st.md
    IN  [st EXCEPT !.ac = ac, !.md = md,
                   !.stats.active_connections = Cardinality(DOMAIN ac)]

connect(st, websocket, session_id) ==
    LET ac == DictSet(st.ac, session_id, websocket)
        md == DictSet(st.md, session_id,
                      [last_activity |-> st.now, message_count |-> 0,
                       chunks_processed |-> 0, last_acknowledged_seq |-> 0])
    IN  [st EXCEPT !.ac = ac, !.md = md,
                   !.stats.total_connections = @ + 1,
                   !.stats.active_connections = Cardinality(DOMAIN ac)]

send_message_at_front(st, session_id, message) ==
    IF session_id \in DOMAIN st.ac
    THEN LET websocket == st.ac[session_id] IN
         IF st.peer[websocket] = "open"
         THEN LET sent == [st EXCEPT !.out[websocket] = << message >> \o @] IN
              IF session_id \in DOMAIN sent.md
              THEN [sent EXCEPT !.md[session_id].last_activity = st.now,
                                !.md[session_id].message_count = @ + 1]
              ELSE sent
         ELSE disconnect(st, session_id)
    ELSE st
send_message(st, session_id, message) ==
    IF session_id \in DOMAIN st.ac
    THEN LET websocket == st.ac[session_id] IN
         IF st.peer[websocket] = "open"
         THEN LET sent == [st EXCEPT !.out[websocket] = Append(@, message)] IN
              IF session_id \in DOMAIN sent.md
              THEN [sent EXCEPT !.md[session_id].last_activity = st.now,
                                !.md[session_id].message_count = @ + 1]
              ELSE sent
         ELSE disconnect(st, session_id)
    ELSE st

send_acknowledgment_stale(st, session_id, sequence_id) ==
    IF session_id \in DOMAIN st.md
    THEN send_message([st EXCEPT !.md[session_id].last_acknowledged_seq = sequence_id],
                      session_id,
                      ack_message(session_id, st.md[session_id].last_acknowledged_seq))
    ELSE send_message(st, session_id, ack_message(session_id, sequence_id))

send_acknowledgment(st, session_id, sequence_id) ==
    LET updated == IF session_id \in DOMAIN st.md
                   THEN [st EXCEPT !.md[session_id].last_acknowledged_seq = sequence_id]
                   ELSE st
    IN  send_message(updated, session_id, ack_message(session_id, sequence_id))

send_error_message(st, session_id, error_code, text) ==
    send_message(st, session_id, error_message(session_id, error_code, text))

\* lines 186-194: the message has no session_id; send_message goes to every
\* session registered when the loop starts.
RECURSIVE broadcast_keepalive(_, _)
broadcast_keepalive(st, session_ids) ==
    IF session_ids = {}
    THEN st
    ELSE LET keepalive_message_ == [message_type |-> "keepalive",
                                    timestamp |-> "epoch_ms"]
             session_id == CHOOSE s \in session_ids : TRUE
         IN  broadcast_keepalive(send_message(st, session_id, keepalive_message_),
                                 session_ids \ {session_id})

(***************************************************************************)
(* main.py: inbound units.  A unit is what websocket.receive_text returns:  *)
(*   [form |-> "text"]    text that json.loads rejects                     *)
(*   [form |-> "scalar"]  JSON text of a number                            *)
(*   [form |-> "object", body |-> m]  a JSON object, m its dict            *)
(***************************************************************************)
JsonNull == [null |-> TRUE]

Str(s) == [str |-> s]

Chunk(session_id) == [session_id |-> Str(session_id), audio_chunk |-> Str("pcm")]

Bodies ==
    {  Chunk("u1"),
       Chunk("u1") @@ [sequence_id |-> 1],
       Chunk("u1") @@ [sequence_id |-> 2],
       Chunk("u2") @@ [sequence_id |-> 1],
       Chunk("u1") @@ [sequence_id |-> 1,
                       language_pair |-> [source |-> "en", target |-> "hi"]],
       Chunk("u1") @@ [sequence_id |-> 2, language_pair |-> [source |-> "xx"]],
       Chunk("u1") @@ [sequence_id |-> 1, message_type |-> "keepalive"],
       Chunk("u1") @@ [sequence_id |-> 1, message_type |-> "status"],
       Chunk("bad") @@ [sequence_id |-> 1],
       [session_id |-> Str("u1"), sequence_id |-> 1],
       [audio_chunk |-> Str("pcm"), sequence_id |-> 1],
       [session_id |-> Str("u1"), audio_chunk |-> Str(""), sequence_id |-> 1],
       [session_id |-> Str("u1"), audio_chunk |-> [int |-> 7], sequence_id |-> 1],
       [session_id |-> [int |-> 7], audio_chunk |-> Str("pcm"), sequence_id |-> 1]  }

Units == {[form |-> "text"], [form |-> "scalar"]}
         \cup {[form |-> "object", body |-> m] : m \in Bodies}

\* validate_inbound_message returns a bool, or raises when
\* uuid.UUID is handed something that is not a str.
validate_raises(message) ==
    /\ "session_id" \in DOMAIN message
    /\ "audio_chunk" \in DOMAIN message
    /\ "str" \notin DOMAIN message.session_id

validate_inbound_message_lax(message) ==
    /\ "session_id" \in DOMAIN message
    /\ UuidValid(message.session_id.str)

validate_inbound_message(message) ==
    /\ \A field \in {"session_id", "audio_chunk"} : field \in DOMAIN message
    /\ UuidValid(message.session_id.str)
    /\ LET audio_chunk == Get(message, "audio_chunk", JsonNull) IN
       ~("str" \notin DOMAIN audio_chunk \/ audio_chunk.str = "")

\* Python truth of a JSON value.
Truthy(v) ==
    /\ "null" \notin DOMAIN v
    /\ "str" \in DOMAIN v => v.str # ""
    /\ "int" \in DOMAIN v => v.int # 0

\* The call of line 372 passes these keywords; translate_audio
\* (translation_processor.py 153-159) takes these parameters.  A keyword that
\* is no parameter makes the call raise TypeError before the body runs.
call_keywords == {"audio_data", "source_language", "target_language",
                  "session_id", "sequence_id"}

translate_audio_parameters == {"audio_data", "source_language",
                               "target_language", "session_id"}

CallBinds == call_keywords \subseteq translate_audio_parameters

\* The attributes SeamlessM4TProcessor.__init__ sets (lines 61-122); line 405
\* of main.py reads translation_processor.backpressure_events.
processor_attributes ==
    {"api_url", "api_key", "is_loaded", "sample_rate", "chunk_size_ms",
     "overlap_ms", "chunk_size_samples", "overlap_size_samples",
     "enable_noise_suppression", "enable_agc", "enable_bandpass_filter",
     "bandpass_low_freq", "bandpass_high_freq", "agc_target_level",
     "agc_max_gain", "language_mapping", "total_processed",
     "processing_times", "latency_metrics", "hp_prev_input",
     "hp_prev_output", "lp_prev_output"}

\* except ProcessorError (lines 409-418)
on_processor_error(st, session_id, text) ==
    send_error_message([st EXCEPT !.stats.failed_translations = @ + 1],
                       session_id, "TRANSLATION_ERROR", text)

on_unexpected_error_unreported(st, session_id, text) ==
    [st EXCEPT !.stats.failed_translations = @ + 1]
\* except Exception (lines 420-429)
on_unexpected_error(st, session_id, text) ==
    send_error_message([st EXCEPT !.stats.failed_translations = @ + 1],
                       session_id, "UNEXPECTED_ERROR", text)

\* lines 396-405, after the transcript was sent
update_global_stats(st, session_id, processing_time) ==
    LET total == st.stats.total_translations + 1
        counted == [st EXCEPT
            !.stats.total_translations = total,
            !.stats.successful_translations = @ + 1,
            !.stats.avg_processing_time =
                (@ * (total - 1) + processing_time) \div total]
    IN  IF "backpressure_events" \in processor_attributes
        THEN counted
        ELSE on_unexpected_error(counted, session_id,
                 "object has no attribute 'backpressure_events'")

process_audio_chunk(st, session_id, message, script) ==
    LET audio_chunk == Get(message, "audio_chunk", JsonNull)
        chunk_index == Get(message, "chunk_index", 0)
        language_pair == Get(message, "language_pair", EmptyDict)
    IN
    IF ~Truthy(audio_chunk)
    THEN on_unexpected_error(st, session_id, "Audio chunk data is required")
    ELSE
    LET acked == IF "sequence_id" \in DOMAIN message
                 THEN send_acknowledgment(st, session_id, message.sequence_id)
                 ELSE st
        counted == IF session_id \in DOMAIN acked.md
                   THEN [acked EXCEPT !.md[session_id].chunks_processed = @ + 1]
                   ELSE acked
    IN
    IF ~CallBinds
    THEN on_unexpected_error(counted, session_id,
             "translate_audio() got an unexpected keyword argument 'sequence_id'")
    ELSE
    LET translation_result ==
            translate_audio(audio_chunk.str,
                            Get(language_pair, "source", "en"),
                            Get(language_pair, "target", "hi"),
                            TRUE, script)
    IN
    IF translation_result.raised # ""
    THEN on_processor_error(counted, session_id, translation_result.message)
    ELSE update_global_stats(
             send_message(counted, session_id,
                 response_message(session_id, chunk_index,
                     IF "sequence_id" \in DOMAIN message
                     THEN Some(message.sequence_id) ELSE None,
                     translation_result)),
             session_id, translation_result.processing_time_ms)

process_websocket_message(st, session_id, unit, script) ==
    IF unit.form = "text"
    THEN send_error_message(st, session_id, "JSON_PARSE_ERROR", "Invalid JSON format")
    ELSE IF unit.form = "scalar" \/ validate_raises(unit.body)
    THEN send_error_message(st, session_id, "PROCESSING_ERROR", "TypeError")
    ELSE IF ~validate_inbound_message(unit.body)
    THEN send_error_message(st, session_id, "INVALID_MESSAGE_FORMAT",
                            "Message format is invalid")
    ELSE LET message_type == Get(unit.body, "message_type", "audio_chunk") IN
         IF message_type = "audio_chunk"
         THEN process_audio_chunk(st, session_id, unit.body, script)
         ELSE st

(***************************************************************************)
(* main.py: websocket_endpoint, one task per connection.                   *)
(*   pc = "new"       not yet opened                                       *)
(*   pc = "rejected"  closed at line 217, before the try                   *)
(*   pc = "active"    at receive_text, line 253                            *)
(*   pc = "closed"    past the finally of lines 294-298                    *)
(***************************************************************************)
St == [ac |-> active_connections, md |-> session_metadata,
       stats |-> connection_stats, out |-> outbox, peer |-> peer,
       now |-> now]

Commit(st) ==
    /\ active_connections' = st.ac
    /\ session_metadata' = st.md
    /\ connection_stats' = st.stats
    /\ outbox' = st.out

SessionInfo(session_id) ==
    [session_id |-> session_id, last_activity |-> now, message_count |-> 0,
     chunks_processed |-> 0, last_acknowledged_seq |-> 0]

NextToOpen(c) == pc[c] = "new" /\ \A d \in Conns : d < c => pc[d] # "new"

\* lines 213-218
RejectHandshake(c, session_id) ==
    /\ NextToOpen(c)
    /\ ~UuidValid(session_id)
    /\ pc' = [pc EXCEPT ![c] = "rejected"]
    /\ path_id' = [path_id EXCEPT ![c] = session_id]
    /\ close_frame' = [close_frame EXCEPT
           ![c] = Some([code |-> 4000, reason |-> "Invalid session ID format"])]
    /\ UNCHANGED << peer, outbox, active_connections, session_metadata,
                    active_sessions, connection_stats, data, waits, engine, gateway_vars, now >>

\* lines 213-247
AcceptConnection(c, session_id) ==
    /\ NextToOpen(c)
    /\ UuidValid(session_id)
    /\ pc' = [pc EXCEPT ![c] = "active"]
    /\ path_id' = [path_id EXCEPT ![c] = session_id]
    /\ active_sessions' = DictSet(active_sessions, session_id, SessionInfo(session_id))
    /\ Commit(send_message(connect(St, c, session_id), session_id,
                           welcome_message(session_id)))
    /\ UNCHANGED << peer, close_frame, data, waits, engine,
                    gateway_vars, now >>

\* lines 228-230 and 285-298: websocket.accept() raises (the client went
\* away during the handshake), so connect registers nothing; the except
\* clause sends CONNECTION_ERROR to whatever websocket is registered under
\* session_id, and the finally deregisters session_id.
AcceptRaises(c, session_id) ==
    /\ NextToOpen(c)
    /\ UuidValid(session_id)
    /\ pc' = [pc EXCEPT ![c] = "closed"]
    /\ path_id' = [path_id EXCEPT ![c] = session_id]
    /\ peer' = [peer EXCEPT ![c] = "gone"]
    /\ Commit(disconnect(send_error_message([St EXCEPT !.peer = peer'], session_id,
                             "CONNECTION_ERROR", "accept"), session_id))
    /\ active_sessions' = IF session_id \in DOMAIN active_sessions
                          THEN DictDel(active_sessions, session_id)
                          ELSE active_sessions
    /\ UNCHANGED << close_frame, data, waits, engine, gateway_vars, now >>

\* lines 253-260: a unit arrives within the 30 s wait
Receive(c, unit) ==
    /\ pc[c] = "active"
    /\ peer[c] = "open"
    /\ waits < MaxWaits
    /\ waits' = waits + 1
    /\ data' = [conn |-> c, unit |-> unit]
    /\ active_sessions' =
           IF path_id[c] \in DOMAIN active_sessions
           THEN [active_sessions EXCEPT ![path_id[c]].last_activity = now]
           ELSE active_sessions
    /\ Commit(process_websocket_message(St, path_id[c], unit, engine))
    /\ UNCHANGED << pc, path_id, peer, close_frame, engine,
                    gateway_vars, now >>

\* lines 262-269: the 30 s wait expires
ReceiveTimeout(c) ==
    /\ pc[c] = "active"
    /\ peer[c] = "open"
    /\ waits < MaxWaits
    /\ waits' = waits + 1
    /\ data' = [conn |-> c, unit |-> [form |-> "timeout"]]
    /\ Commit(send_message(St, path_id[c], keepalive_message(path_id[c])))
    /\ UNCHANGED << pc, path_id, peer, close_frame, active_sessions, engine,
                    gateway_vars, now >>

\* the finally of lines 294-298
Finally(c, st) ==
    /\ Commit(disconnect(st, path_id[c]))
    /\ active_sessions' = IF path_id[c] \in DOMAIN active_sessions
                          THEN DictDel(active_sessions, path_id[c])
                          ELSE active_sessions
    /\ pc' = [pc EXCEPT ![c] = "closed"]

\* lines 275-283: receive_text raises something other than a timeout or a
\* disconnect (a binary frame has no "text": KeyError)
ReceiveError(c) ==
    /\ pc[c] = "active"
    /\ peer[c] = "open"
    /\ data' = [conn |-> c, unit |-> [form |-> "binary"]]
    /\ Finally(c, send_error_message(St, path_id[c], "PROCESSING_ERROR", "'text'"))
    /\ UNCHANGED << path_id, peer, close_frame, waits, engine, gateway_vars, now >>

\* the client goes away
PeerGone(c) ==
    /\ pc[c] = "active"
    /\ peer[c] = "open"
    /\ peer' = [peer EXCEPT ![c] = "gone"]
    /\ UNCHANGED << pc, path_id, close_frame, outbox, active_connections,
                    session_metadata, active_sessions, connection_stats, data,
                    waits, engine, gateway_vars, now >>

\* lines 271-273: receive_text raises WebSocketDisconnect
Disconnected(c) ==
    /\ pc[c] = "active"
    /\ peer[c] = "gone"
    /\ data' = [conn |-> c, unit |-> [form |-> "disconnect"]]
    /\ Finally(c, St)
    /\ UNCHANGED << path_id, peer, close_frame, waits, engine, gateway_vars, now >>

\* WebSocketManager.broadcast_keepalive (lines 186-194), called on the
\* manager as the server has it.  Nothing in main.py calls it; the
\* specification SpecBroadcast does.
BroadcastKeepalive ==
    /\ waits < MaxWaits
    /\ waits' = waits + 1
    /\ data' = [conn |-> 0, unit |-> [form |-> "broadcast"]]
    /\ Commit(broadcast_keepalive(St, DOMAIN active_connections))
    /\ UNCHANGED << pc, path_id, peer, close_frame, active_sessions, engine,
                    gateway_vars, now >>

(***************************************************************************)
(* main.py: session_cleanup_task, one task for the server.  Its first pass *)
(* runs at startup, when there is no session; Init is the state after it.  *)
(***************************************************************************)
session_timeout_seconds == 300

cleanup_sleep_seconds == 60

\* timedelta.seconds: the seconds of a duration without its whole days.
timedelta_seconds(delta) == delta % 86400

inactive_sessions_late(sessions, current_time) ==
    {session_id \in DOMAIN sessions :
        timedelta_seconds(current_time - sessions[session_id].last_activity)
            > session_timeout_seconds + cleanup_sleep_seconds}
inactive_sessions_early(sessions, current_time) ==
    {session_id \in DOMAIN sessions :
        timedelta_seconds(current_time - sessions[session_id].last_activity)
            > session_timeout_seconds - cleanup_sleep_seconds}
\* lines 485-487
inactive_sessions(sessions, current_time) ==
    {session_id \in DOMAIN sessions :
        timedelta_seconds(current_time - sessions[session_id].last_activity)
            > session_timeout_seconds}

\* lines 490-492: websocket_manager.disconnect for each inactive session
RECURSIVE disconnect_each(_, _)
disconnect_each(st, session_ids) ==
    IF session_ids = {}
    THEN st
    ELSE LET session_id == CHOOSE s \in session_ids : TRUE
         IN  disconnect_each(disconnect(st, session_id), session_ids \ {session_id})

\* lines 480-496: the sleep returns, 60 s after it began, and the loop body
\* runs up to the next sleep; it has no await, so nothing runs in between.
session_cleanup_task ==
    /\ now < cleanup_sleep_seconds * MaxSleeps
    /\ now' = now + cleanup_sleep_seconds
    /\ LET inactive == inactive_sessions(active_sessions, now') IN
       /\ Commit(disconnect_each([St EXCEPT !.now = now'], inactive))
       /\ active_sessions' =
              [s \in DOMAIN active_sessions \ inactive |-> active_sessions[s]]
    /\ UNCHANGED << pc, path_id, peer, close_frame, data, waits, engine,
                    gateway_vars >>

(***************************************************************************)
(* SpecAudio: _postprocess_audio and the normalization applied to buffers. *)
(***************************************************************************)
\* Sample values: the ends of the int16 range, the values next to 0.95 of
\* full scale (31129.6), zero and small ones.
Samples == {-32768, -31130, -1000, 0, 1, 31129, 31130, 32767}

\* Buffers of up to two samples.
Buffers == {<< >>} \cup {<< x >> : x \in Samples}
              \cup {<< x, y >> : x \in Samples, y \in Samples}

\* line 198: final_audio = self._postprocess_audio(translated_audio)
Postprocess ==
    /\ stage # "raised"
    /\ passes < MaxPasses
    /\ passes' = passes + 1
    /\ a_in' = a_pcm
    /\ a_pcm' = _postprocess_audio(a_pcm)
    /\ stage' = "postprocess"
    /\ UNCHANGED << server_vars, engine, g_pc, g_in, g_out >>

\* lines 254-259
Normalize ==
    /\ stage # "raised"
    /\ passes < MaxPasses
    /\ passes' = passes + 1
    /\ a_in' = a_pcm
    /\ LET result == normalize_stage(a_pcm) IN
       /\ a_pcm' = result.pcm
       /\ stage' = IF result.raised # "" THEN "raised" ELSE "normalize"
    /\ UNCHANGED << server_vars, engine, g_pc, g_in, g_out >>

(***************************************************************************)
(* SpecGateway: one direct call of translate_audio.                        *)
(***************************************************************************)
GatewayInputs ==
    [audio_data : AudioTokens, source_language : Langs,
     target_language : Langs, is_loaded : BOOLEAN]

Pending == [raised |-> "pending", message |-> "", engine_calls |-> 0,
            delays |-> << >>, is_final |-> FALSE, confidence |-> 0,
            text_bytes |-> 0, processing_time_ms |-> 0]

Translate ==
    /\ g_pc = "call"
    /\ g_pc' = "done"
    /\ g_out' = translate_audio(g_in.audio_data, g_in.source_language,
                                g_in.target_language, g_in.is_loaded, engine)
    /\ UNCHANGED << server_vars, engine, g_in, audio_vars >>

(***************************************************************************)
(* Specifications.                                                         *)
(***************************************************************************)
AudioIdle == a_pcm = << >> /\ a_in = << >> /\ stage = "none" /\ passes = 0

\* The engine as the server meets it: always answering, or never.
ServerEngines == {[i \in 1..max_retries |-> "ok"],
                  [i \in 1..max_retries |-> "transport_error"]}

InitServer ==
    /\ pc = [c \in Conns |-> "new"]
    /\ path_id = [c \in Conns |-> ""]
    /\ peer = [c \in Conns |-> "open"]
    /\ close_frame = [c \in Conns |-> None]
    /\ outbox = [c \in Conns |-> << >>]
    /\ active_connections = EmptyDict
    /\ session_metadata = EmptyDict
    /\ active_sessions = EmptyDict
    /\ connection_stats = [total_connections |-> 0, active_connections |-> 0,
                           total_translations |-> 0,
                           successful_translations |-> 0,
                           failed_translations |-> 0,
                           avg_processing_time |-> 0,
                           backpressure_events |-> 0]
    /\ data = [conn |-> 0, unit |-> [form |-> "none"]]
    /\ waits = 0
    /\ now = 0

Init ==
    /\ InitServer
    /\ engine \in ServerEngines
    /\ g_pc = "idle"
    /\ g_in = [audio_data |-> "pcm", source_language |-> "en",
               target_language |-> "hi", is_loaded |-> TRUE]
    /\ g_out = Pending
    /\ AudioIdle

Next ==
    \/ \E c \in Conns, session_id \in PathIds : RejectHandshake(c, session_id)
    \/ \E c \in Conns, session_id \in PathIds : AcceptConnection(c, session_id)
    \/ \E c \in Conns, unit \in Units : Receive(c, unit)
    \/ \E c \in Conns : ReceiveTimeout(c)
    \/ \E c \in Conns : ReceiveError(c)
    \/ \E c \in Conns : PeerGone(c)
    \/ \E c \in Conns : Disconnected(c)

Spec == Init /\ [][Next]_vars

\* The units the clients send while the cleanup task is watched: a chunk
\* with a sequence_id, and a client keepalive.
CleanupUnits ==
    {[form |-> "object", body |-> Chunk("u1") @@ [sequence_id |-> 1]],
     [form |-> "object", body |-> Chunk("u1") @@ [message_type |-> "keepalive"]]}

InitCleanup ==
    /\ InitServer
    /\ engine = [i \in 1..max_retries |-> "ok"]
    /\ g_pc = "idle"
    /\ g_in = [audio_data |-> "pcm", source_language |-> "en",
               target_language |-> "hi", is_loaded |-> TRUE]
    /\ g_out = Pending
    /\ AudioIdle

NextCleanup ==
    \/ \E c \in Conns, session_id \in PathIds : RejectHandshake(c, session_id)
    \/ \E c \in Conns, session_id \in PathIds : AcceptConnection(c, session_id)
    \/ \E c \in Conns, unit \in CleanupUnits : Receive(c, unit)
    \/ \E c \in Conns : ReceiveTimeout(c)
    \/ \E c \in Conns : ReceiveError(c)
    \/ \E c \in Conns : PeerGone(c)
    \/ \E c \in Conns : Disconnected(c)
    \/ session_cleanup_task

SpecCleanup == InitCleanup /\ [][NextCleanup]_vars

NextBroadcast ==
    \/ \E c \in Conns, session_id \in PathIds : AcceptConnection(c, session_id)
    \/ \E c \in Conns : ReceiveTimeout(c)
    \/ \E c \in Conns : PeerGone(c)
    \/ \E c \in Conns : Disconnected(c)
    \/ BroadcastKeepalive

SpecBroadcast == InitCleanup /\ [][NextBroadcast]_vars

\* The units the clients send while the opening of connections is watched:
\* those of CleanupUnits and a client keepalive without audio_chunk.
OpenUnits ==
    CleanupUnits
        \cup {[form |-> "object",
               body |-> [session_id |-> Str("u1"), message_type |-> "keepalive"]]}

NextOpen ==
    \/ \E c \in Conns, session_id \in PathIds : RejectHandshake(c, session_id)
    \/ \E c \in Conns, session_id \in PathIds : AcceptConnection(c, session_id)
    \/ \E c \in Conns, session_id \in PathIds : AcceptRaises(c, session_id)
    \/ \E c \in Conns, unit \in OpenUnits : Receive(c, unit)
    \/ \E c \in Conns : ReceiveTimeout(c)
    \/ \E c \in Conns : PeerGone(c)
    \/ \E c \in Conns : Disconnected(c)

SpecOpen == InitCleanup /\ [][NextOpen]_vars

InitGateway ==
    /\ InitServer
    /\ engine \in EngineScripts
    /\ g_pc = "call"
    /\ g_in \in GatewayInputs
    /\ g_out = Pending
    /\ AudioIdle

NextGateway == Translate

SpecGateway == InitGateway /\ [][NextGateway]_vars

InitAudio ==
    /\ InitServer
    /\ engine = [i \in 1..max_retries |-> "ok"]
    /\ g_pc = "idle"
    /\ g_in = [audio_data |-> "pcm", source_language |-> "en",
               target_language |-> "hi", is_loaded |-> TRUE]
    /\ g_out = Pending
    /\ a_pcm \in Buffers
    /\ a_in = << >>
    /\ stage = "none"
    /\ passes = 0

NextAudio == Postprocess \/ Normalize

SpecAudio == InitAudio /\ [][NextAudio]_vars

(***************************************************************************)
(* Properties.  They speak of the units and messages themselves, not of    *)
(* the operators above.                                                    *)
(***************************************************************************)
\* A unit that is a well-formed audio chunk: a JSON object with a UUID
\* session_id, a non-empty text audio_chunk and no other message_type.
WellFormedChunk(unit) ==
    /\ unit.form = "object"
    /\ "session_id" \in DOMAIN unit.body
    /\ "str" \in DOMAIN unit.body.session_id
    /\ unit.body.session_id.str \in UuidTokens
    /\ "audio_chunk" \in DOMAIN unit.body
    /\ "str" \in DOMAIN unit.body.audio_chunk
    /\ unit.body.audio_chunk.str # ""
    /\ "message_type" \in DOMAIN unit.body => unit.body.message_type = "audio_chunk"

Sequenced(unit) == WellFormedChunk(unit) /\ "sequence_id" \in DOMAIN unit.body

\* This step is connection c reading a unit from receive_text.
Reads(c) ==
    /\ waits' = waits + 1
    /\ data'.conn = c
    /\ data'.unit.form \in {"text", "scalar", "object"}

\* The session of connection c is registered, with c as its websocket.
OwnSession(c) ==
    /\ pc[c] = "active"
    /\ path_id[c] \in DOMAIN active_connections
    /\ active_connections[path_id[c]] = c
    /\ path_id[c] \in DOMAIN session_metadata
    /\ path_id[c] \in DOMAIN active_sessions

IsTranscript(m) == m.message_type \in {"partial_transcript", "final_transcript"}

IsAck(m, session_id, sequence_id) ==
    /\ m.message_type = "ack"
    /\ m.session_id = session_id
    /\ m.ack_sequence_id = sequence_id

IsError(m, session_id, error_code) ==
    /\ m.message_type = "error"
    /\ m.session_id = session_id
    /\ m.error_code = error_code

\* What websocket w was sent in this step.
Sent(w) == SubSeq(outbox'[w], Len(outbox[w]) + 1, Len(outbox'[w]))

Grows(w) == /\ Len(outbox'[w]) >= Len(outbox[w])
            /\ SubSeq(outbox'[w], 1, Len(outbox[w])) = outbox[w]

\* C1: every transcript that carries a sequence_id is preceded, on the same
\* websocket, by the ack of that sequence_id.
AckPrecedesTranscript ==
    \A w \in Conns : \A j \in 1..Len(outbox[w]) :
        (IsTranscript(outbox[w][j]) /\ outbox[w][j].sequence_id # None) =>
            \E i \in 1..(j - 1) :
                IsAck(outbox[w][i], outbox[w][j].session_id,
                      outbox[w][j].sequence_id[1])

\* C1: a well-formed audio chunk with a sequence_id, read on a connection
\* whose session is registered, is acknowledged first: the first message
\* the step sends is the ack of that sequence_id.
AckIsSentFirst ==
    \A c \in Conns :
        (Reads(c) /\ Sequenced(data'.unit) /\ OwnSession(c)) =>
            /\ Grows(c)
            /\ Len(Sent(c)) >= 1
            /\ IsAck(Sent(c)[1], path_id[c], data'.unit.body.sequence_id)
            /\ \A k \in 1..Len(Sent(c)) : IsTranscript(Sent(c)[k]) => k > 1

\* C1: for every valid audio-chunk unit with a sequence_id, the ack with that
\* ack_sequence_id is emitted before any transcript for the chunk.
C1_AckBeforeTranscript == []AckPrecedesTranscript /\ [][AckIsSentFirst]_vars

\* C1 witness: a sequenced chunk was read, its ack delivered, and the
\* outcome of its dispatch delivered after the ack.
C1_Witness ==
    \E c \in Conns :
        /\ data.conn = c
        /\ Sequenced(data.unit)
        /\ Len(outbox[c]) >= 3
        /\ IsAck(outbox[c][Len(outbox[c]) - 1], path_id[c],
                 data.unit.body.sequence_id)
        /\ outbox[c][Len(outbox[c])].message_type # "ack"
        /\ session_metadata[path_id[c]].chunks_processed >= 1

\* C2: the last-acknowledged sequence number of a session never decreases
\* while units are read: a sequence_id below the stored value is accepted
\* (answered by its ack, not by an error) and leaves the stored value as it is.
C2_LastAckMonotone ==
    [][\A c \in Conns :
        (Reads(c) /\ OwnSession(c) /\ path_id[c] \in DOMAIN session_metadata') =>
            /\ session_metadata'[path_id[c]].last_acknowledged_seq
                   >= session_metadata[path_id[c]].last_acknowledged_seq
            /\ Sequenced(data'.unit) =>
                   /\ Len(Sent(c)) >= 1
                   /\ IsAck(Sent(c)[1], path_id[c], data'.unit.body.sequence_id)
      ]_vars

\* C3: opening a connection with a session id that is already active fails,
\* and the active session's websocket and metadata stay as they were.
C3_DuplicateOpenFails ==
    [][\A c \in Conns :
        (pc[c] = "new" /\ pc'[c] # "new"
            /\ path_id'[c] \in DOMAIN active_connections) =>
            /\ pc'[c] # "active"
            /\ path_id'[c] \in DOMAIN active_connections'
            /\ active_connections'[path_id'[c]] = active_connections[path_id'[c]]
            /\ session_metadata'[path_id'[c]] = session_metadata[path_id'[c]]
      ]_vars

\* C4: a connection whose path session id is malformed is closed with
\* code 4000 and a reason and is sent nothing; no malformed id is ever a key
\* of active_sessions, active_connections or session_metadata.
MalformedIsRejected ==
    /\ \A c \in Conns :
           path_id[c] \in MalformedTokens =>
               /\ pc[c] = "rejected"
               /\ close_frame[c] =
                      Some([code |-> 4000, reason |-> "Invalid session ID format"])
               /\ outbox[c] = << >>
    /\ \A s \in MalformedTokens :
           /\ s \notin DOMAIN active_sessions
           /\ s \notin DOMAIN active_connections
           /\ s \notin DOMAIN session_metadata

\* C4: the step that opens a connection under a malformed id changes no
\* registry and no counter.
RejectionTouchesNothing ==
    \A c \in Conns :
        (pc[c] = "new" /\ path_id'[c] \in MalformedTokens) =>
            UNCHANGED << active_sessions, active_connections,
                         session_metadata, connection_stats, outbox >>

\* C4: a malformed path session id is rejected at the handshake with a close
\* code and reason; no registry entry is created, no counter changes.
C4_MalformedIdRejected == []MalformedIsRejected /\ [][RejectionTouchesNothing]_vars

\* C4 witness: a connection was rejected while another session is live.
C4_Witness ==
    \E c \in Conns :
        /\ pc[c] = "rejected"
        /\ path_id[c] \in MalformedTokens
        /\ close_frame[c] # None
        /\ connection_stats.total_connections = 1
        /\ Cardinality(DOMAIN active_connections) = 1

MissingAudio(unit) ==
    /\ unit.form = "object"
    /\ "session_id" \in DOMAIN unit.body
    /\ "audio_chunk" \notin DOMAIN unit.body

HasError(s, session_id, error_code) ==
    \E i \in 1..Len(s) : IsError(s[i], session_id, error_code)

\* C5: on a connection whose session is registered, a unit without
\* audio_chunk is answered by exactly one message, the error
\* INVALID_MESSAGE_FORMAT; the connection stays active and the session
\* registered, its last-acknowledged sequence number as it was.
MissingAudioIsReported ==
    \A c \in Conns :
        (Reads(c) /\ MissingAudio(data'.unit) /\ OwnSession(c)) =>
            /\ Grows(c)
            /\ Len(Sent(c)) = 1
            /\ IsError(Sent(c)[1], path_id[c], "INVALID_MESSAGE_FORMAT")
            /\ pc'[c] = "active"
            /\ active_connections' = active_connections
            /\ active_sessions' = active_sessions
            /\ DOMAIN session_metadata' = DOMAIN session_metadata
            /\ session_metadata'[path_id[c]].last_acknowledged_seq
                   = session_metadata[path_id[c]].last_acknowledged_seq
            /\ session_metadata'[path_id[c]].chunks_processed
                   = session_metadata[path_id[c]].chunks_processed

\* C5: after such an error, a well-formed chunk with a sequence_id read on
\* the same connection is still acknowledged.
ChunkAfterErrorIsAcked ==
    \A c \in Conns :
        (Reads(c) /\ Sequenced(data'.unit) /\ OwnSession(c)
            /\ HasError(outbox[c], path_id[c], "INVALID_MESSAGE_FORMAT")) =>
            /\ Len(Sent(c)) >= 1
            /\ IsAck(Sent(c)[1], path_id[c], data'.unit.body.sequence_id)
            /\ pc'[c] = "active"

\* C5: a unit missing audio_chunk yields the error INVALID_MESSAGE_FORMAT, the
\* session remains active and registered, and a later valid chunk with a
\* sequence_id is still acknowledged.
C5_MissingAudioChunk ==
    [][MissingAudioIsReported /\ ChunkAfterErrorIsAcked]_vars

\* C5 witness: INVALID_MESSAGE_FORMAT was sent for a unit without
\* audio_chunk, and the chunk read next on that connection was acknowledged.
C5_Witness ==
    \E c \in Conns : \E i \in 1..Len(outbox[c]) :
        /\ IsError(outbox[c][i], path_id[c], "INVALID_MESSAGE_FORMAT")
        /\ Len(outbox[c]) > i
        /\ data.conn = c
        /\ Sequenced(data.unit)
        /\ IsAck(outbox[c][i + 1], path_id[c], data.unit.body.sequence_id)
        /\ pc[c] = "active"
        /\ path_id[c] \in DOMAIN active_connections

\* The scenario of C6: connection c alone, freshly opened as session u1,
\* has read one unit, the chunk with sequence_id 1 and the pair en -> hi,
\* and the engine answers every request.
FirstChunk ==
    [form |-> "object",
     body |-> Chunk("u1") @@ [sequence_id |-> 1,
                              language_pair |-> [source |-> "en", target |-> "hi"]]]

EndToEnd(c) ==
    /\ pc[c] = "active"
    /\ peer[c] = "open"
    /\ path_id[c] = "u1"
    /\ \A d \in Conns \ {c} : pc[d] = "new"
    /\ waits = 1
    /\ data = [conn |-> c, unit |-> FirstChunk]
    /\ \A k \in DOMAIN engine : engine[k] = "ok"

\* C6: end to end, a fresh session that sends one valid chunk with
\* sequence_id 1 and the pair en -> hi, the engine succeeding, is sent exactly
\* connected, then the ack of 1, then a transcript with a confidence in [0,1]
\* and a processing_time_ms >= 0.
C6_EndToEndOrder ==
    \A c \in Conns :
        EndToEnd(c) =>
            /\ Len(outbox[c]) = 3
            /\ outbox[c][1].message_type = "connected"
            /\ IsAck(outbox[c][2], "u1", 1)
            /\ IsTranscript(outbox[c][3])
            /\ outbox[c][3].confidence \in 0..100
            /\ outbox[c][3].processing_time_ms >= 0

\* The translation of this chunk ends in a ProcessorError: translate_audio,
\* given the chunk's audio and language pair, raises it.
TranslationFails(unit) ==
    LET language_pair == Get(unit.body, "language_pair", EmptyDict) IN
    translate_audio(unit.body.audio_chunk.str,
                    Get(language_pair, "source", "en"),
                    Get(language_pair, "target", "hi"),
                    TRUE, engine).raised = "ProcessorError"

\* The connection of c has ended and its session is deregistered.
Terminated(c) ==
    /\ pc'[c] = "closed"
    /\ path_id[c] \notin DOMAIN active_connections'
    /\ path_id[c] \notin DOMAIN session_metadata'
    /\ path_id[c] \notin DOMAIN active_sessions'

\* C7: when the translation of a chunk fails with a ProcessorError, the error
\* TRANSLATION_ERROR is sent and the connection is terminated: it leaves
\* active, reads no further unit, and its session is deregistered.
C7_TranslationErrorTerminates ==
    [][\A c \in Conns :
        (Reads(c) /\ WellFormedChunk(data'.unit) /\ OwnSession(c)
            /\ TranslationFails(data'.unit)) =>
            /\ HasError(Sent(c), path_id[c], "TRANSLATION_ERROR")
            /\ Terminated(c)
      ]_vars

\* The processing of this chunk fails with something that is no
\* ProcessorError: the call of translate_audio itself raises TypeError.
UnexpectedFailure(unit) == WellFormedChunk(unit) /\ ~CallBinds

\* C8: when the processing of a chunk fails unexpectedly, the error
\* UNEXPECTED_ERROR is sent and the connection is terminated: it reads no
\* further unit and its session is deregistered.
C8_UnexpectedErrorTerminates ==
    [][\A c \in Conns :
        (Reads(c) /\ UnexpectedFailure(data'.unit) /\ OwnSession(c)) =>
            /\ HasError(Sent(c), path_id[c], "UNEXPECTED_ERROR")
            /\ Terminated(c)
      ]_vars

\* C9: a translate call whose source or target language is outside the
\* supported set is rejected with no request to the engine: it raises, the
\* number of engine requests is 0, and (the processor being initialized) what
\* it raises is the unsupported-language error.
C9_UnsupportedLanguageNoCall ==
    (g_pc = "done" /\ (g_in.source_language \notin language_mapping
                       \/ g_in.target_language \notin language_mapping)) =>
        /\ g_out.raised = "ProcessorError"
        /\ g_out.engine_calls = 0
        /\ g_out.delays = << >>
        /\ g_in.is_loaded => g_out.message = "Unsupported language pair"

\* C9 witness: a call with a supported source and an unsupported target,
\* and audio that would otherwise go to the engine, has been rejected.
C9_Witness ==
    /\ g_pc = "done"
    /\ g_in.is_loaded
    /\ g_in.audio_data = "pcm"
    /\ g_in.source_language = "en"
    /\ g_in.target_language = "xx"
    /\ g_out.message = "Unsupported language pair"
    /\ g_out.engine_calls = 0

\* The first attempt the engine answers, 0 when it answers none of the three.
FirstOk(script) ==
    IF \E k \in 1..3 : script[k] = "ok"
    THEN CHOOSE k \in 1..3 :
             script[k] = "ok" /\ \A j \in 1..(k - 1) : script[j] # "ok"
    ELSE 0

\* C10: a translate call that gets as far as the engine makes exactly 3
\* attempts when every attempt fails, waiting 1 then 2 time units between
\* them and none after the last, and then raises the engine-exhausted error;
\* when attempt k <= 3 succeeds it returns after exactly k attempts.
C10_RetryPolicy ==
    (g_pc = "done" /\ g_in.is_loaded /\ g_in.audio_data = "pcm"
        /\ g_in.source_language \in language_mapping
        /\ g_in.target_language \in language_mapping) =>
        IF FirstOk(engine) = 0
        THEN /\ g_out.raised = "ProcessorError"
             /\ g_out.message = "Translation failed after 3 attempts"
             /\ g_out.engine_calls = 3
             /\ g_out.delays = << 1, 2 >>
        ELSE /\ g_out.raised = ""
             /\ g_out.engine_calls = FirstOk(engine)
             /\ g_out.delays = [i \in 1..(FirstOk(engine) - 1) |-> i]


\* C11: a translate call that fails validation (a language outside the
\* supported set, a payload that is not base64, a payload that is not whole
\* 16-bit samples) ends at that failure: it raises that failure's error, no
\* request has gone to the engine and no backoff wait was made.  An attempt
\* after the first is made only when the attempt before it failed.
C11_NoRetryAfterValidationFailure ==
    (g_pc = "done" /\ g_in.is_loaded) =>
        /\ ~_is_language_supported(g_in.source_language, g_in.target_language) =>
               /\ g_out.message = "Unsupported language pair"
               /\ g_out.engine_calls = 0 /\ g_out.delays = << >>
        /\ (_is_language_supported(g_in.source_language, g_in.target_language)
               /\ g_in.audio_data = "notb64") =>
               /\ g_out.raised = "ProcessorError"
               /\ g_out.message = "S2S translation failed"
               /\ g_out.engine_calls = 0 /\ g_out.delays = << >>
        /\ (_is_language_supported(g_in.source_language, g_in.target_language)
               /\ g_in.audio_data = "odd") =>
               /\ g_out.raised = "ProcessorError"
               /\ g_out.message = "Audio preprocessing failed"
               /\ g_out.engine_calls = 0 /\ g_out.delays = << >>
        /\ \A k \in 2..g_out.engine_calls : engine[k - 1] # "ok"
        /\ Len(g_out.delays) <= g_out.engine_calls

\* C11 witness: a call with supported languages and a payload of 33 bytes
\* has ended with the preprocessing error, the engine never asked, although
\* the engine would have failed its first attempt and answered the second.
C11_Witness ==
    /\ g_pc = "done"
    /\ g_in.is_loaded
    /\ g_in.source_language = "en" /\ g_in.target_language = "hi"
    /\ g_in.audio_data = "odd"
    /\ engine[1] = "transport_error" /\ engine[2] = "ok"
    /\ g_out.message = "Audio preprocessing failed"
    /\ g_out.engine_calls = 0


\* C20: a failure inside a stage of the conditioning pipeline does not end
\* the translate call: a call with supported languages whose payload makes a
\* stage fail (4 samples, fewer than the high-pass filter needs) does not
\* raise the preprocessing error.
C20_ConditioningFailureNotFatal ==
    (g_pc = "done" /\ g_in.is_loaded
        /\ _is_language_supported(g_in.source_language, g_in.target_language)
        /\ g_in.audio_data = "short") =>
        ~(g_out.raised = "ProcessorError"
          /\ g_out.message = "Audio preprocessing failed")


\* This step is connection c's 30 s wait for a unit expiring.
TimesOut(c) ==
    /\ waits' = waits + 1
    /\ data'.conn = c
    /\ data'.unit.form = "timeout"

Registered(session_id) ==
    /\ session_id \in DOMAIN active_connections
    /\ session_id \in DOMAIN session_metadata
    /\ session_id \in DOMAIN active_sessions

\* C14: when the 30 s wait of a connection whose session is registered
\* expires, the connection is sent exactly one message, a keepalive carrying
\* its session id; it stays active, its session stays registered in all three
\* tables, and last_acknowledged_seq and chunks_processed keep their values.
C14_TimeoutSendsKeepalive ==
    [][\A c \in Conns :
        (TimesOut(c) /\ OwnSession(c)) =>
            /\ Grows(c)
            /\ Len(Sent(c)) = 1
            /\ Sent(c)[1].message_type = "keepalive"
            /\ Sent(c)[1].session_id = path_id[c]
            /\ pc'[c] = "active"
            /\ path_id[c] \in DOMAIN active_connections'
            /\ active_connections'[path_id[c]] = c
            /\ path_id[c] \in DOMAIN session_metadata'
            /\ path_id[c] \in DOMAIN active_sessions'
            /\ session_metadata'[path_id[c]].last_acknowledged_seq
                   = session_metadata[path_id[c]].last_acknowledged_seq
            /\ session_metadata'[path_id[c]].chunks_processed
                   = session_metadata[path_id[c]].chunks_processed
            /\ active_sessions'[path_id[c]] = active_sessions[path_id[c]]
      ]_vars

\* C14 witness: a connection that had a chunk acknowledged then met a wait
\* that expired: the keepalive is the last message it was sent, and the
\* acknowledged sequence number and the chunk count are still there.
C14_Witness ==
    \E c \in Conns :
        /\ data.conn = c
        /\ data.unit.form = "timeout"
        /\ pc[c] = "active"
        /\ Registered(path_id[c])
        /\ Len(outbox[c]) >= 2
        /\ outbox[c][Len(outbox[c])].message_type = "keepalive"
        /\ outbox[c][Len(outbox[c])].session_id = path_id[c]
        /\ session_metadata[path_id[c]].last_acknowledged_seq = 2
        /\ session_metadata[path_id[c]].chunks_processed = 1


HasAck(s) == \E i \in 1..Len(s) : s[i].message_type = "ack"

\* C15: a well-formed audio chunk without a sequence_id, read on a
\* connection whose session is registered, draws no ack and leaves
\* last_acknowledged_seq as it was, and is still handed to translate_audio:
\* what the connection is sent is the outcome of that call, a transcript or
\* the error TRANSLATION_ERROR.
C15_UnsequencedChunkDispatched ==
    [][\A c \in Conns :
        (Reads(c) /\ WellFormedChunk(data'.unit) /\ ~Sequenced(data'.unit)
            /\ OwnSession(c)) =>
            /\ Grows(c)
            /\ ~HasAck(Sent(c))
            /\ path_id[c] \in DOMAIN session_metadata'
            /\ session_metadata'[path_id[c]].last_acknowledged_seq
                   = session_metadata[path_id[c]].last_acknowledged_seq
            /\ Len(Sent(c)) = 1
            /\ \/ IsTranscript(Sent(c)[1])
               \/ IsError(Sent(c)[1], path_id[c], "TRANSLATION_ERROR")
      ]_vars


\* A unit that is a well-formed chunk naming a session other than the one
\* connection c was opened under.
ForeignChunk(c, unit) ==
    WellFormedChunk(unit) /\ unit.body.session_id.str # path_id[c]

\* C16: a unit whose session_id is not that of the connection it arrives on
\* fails validation: the connection is sent exactly one message, an error;
\* no ack is sent, last_acknowledged_seq and chunks_processed stay as they
\* were, and no translation is counted as tried.
C16_ForeignSessionIdRejected ==
    [][\A c \in Conns :
        (Reads(c) /\ ForeignChunk(c, data'.unit) /\ OwnSession(c)) =>
            /\ Len(Sent(c)) = 1
            /\ Sent(c)[1].message_type = "error"
            /\ Sent(c)[1].error_code
                   \in {"INVALID_MESSAGE_FORMAT", "PROCESSING_ERROR"}
            /\ session_metadata'[path_id[c]].last_acknowledged_seq
                   = session_metadata[path_id[c]].last_acknowledged_seq
            /\ session_metadata'[path_id[c]].chunks_processed
                   = session_metadata[path_id[c]].chunks_processed
            /\ connection_stats'.failed_translations
                   = connection_stats.failed_translations
            /\ connection_stats'.total_translations
                   = connection_stats.total_translations
      ]_vars


\* This step is connection c's receive_text raising WebSocketDisconnect.
Disconnects(c) ==
    /\ pc[c] = "active"
    /\ data'.conn = c
    /\ data'.unit.form = "disconnect"

\* C17: the step in which a connection meets the transport disconnect sends
\* nothing to anyone, leaves the connection closed and its session id out of
\* active_connections, session_metadata and active_sessions.  From the
\* moment its peer is gone a connection is sent nothing more; a closed
\* connection stays closed and is never again the websocket of a session.
C17_DisconnectDeregisters ==
    [][\A c \in Conns :
        /\ Disconnects(c) =>
               /\ outbox' = outbox
               /\ pc'[c] = "closed"
               /\ path_id[c] \notin DOMAIN active_connections'
               /\ path_id[c] \notin DOMAIN session_metadata'
               /\ path_id[c] \notin DOMAIN active_sessions'
        /\ peer[c] = "gone" => outbox'[c] = outbox[c]
        /\ pc[c] = "closed" =>
               /\ pc'[c] = "closed"
               /\ outbox'[c] = outbox[c]
               /\ \A s \in DOMAIN active_connections' :
                      active_connections'[s] # c
      ]_vars

\* C17 witness: a connection that was sent messages lost its peer and met
\* the disconnect; it is closed and its id is gone from the three tables,
\* while the other connection's session is still registered.
C17_Witness ==
    \E c \in Conns, d \in Conns :
        /\ pc[c] = "closed"
        /\ peer[c] = "gone"
        /\ data = [conn |-> c, unit |-> [form |-> "disconnect"]]
        /\ Len(outbox[c]) >= 2
        /\ ~Registered(path_id[c])
        /\ path_id[c] \notin DOMAIN active_connections
        /\ path_id[c] \notin DOMAIN session_metadata
        /\ path_id[c] \notin DOMAIN active_sessions
        /\ pc[d] = "active"
        /\ Registered(path_id[d])


Acks(s) == SelectSeq(s, LAMBDA m : m.message_type = "ack")

Idle(session_id) == now - active_sessions[session_id].last_activity

\* The websocket of connection c is the one registered for its session id.
RegisteredTo(c) ==
    /\ path_id[c] \in DOMAIN active_connections
    /\ active_connections[path_id[c]] = c

\* This step is a pass of session_cleanup_task.
Sweeps == now' # now

\* C12: a pass of the cleanup task removes every session that has by then
\* been idle for more than 300 s from active_sessions, active_connections
\* and session_metadata, and sends nothing.
SweepEvictsIdle ==
    Sweeps =>
        /\ now' - now <= 60
        /\ outbox' = outbox
        /\ \A s \in DOMAIN active_sessions :
               now' - active_sessions[s].last_activity > 300 =>
                   /\ s \notin DOMAIN active_sessions'
                   /\ s \notin DOMAIN active_connections'
                   /\ s \notin DOMAIN session_metadata'

\* C12: a connection that is open and no longer the registered websocket of
\* its session never becomes it again and is delivered nothing more.
NothingAfterEviction ==
    \A c \in Conns :
        (pc[c] # "new" /\ ~RegisteredTo(c)) =>
            /\ outbox'[c] = outbox[c]
            /\ ~(path_id[c] \in DOMAIN active_connections'
                 /\ active_connections'[path_id[c]] = c)

\* C12: a pass happens every 60 s and removes what is idle for more than
\* 300 s, so no session is left registered after the pass that follows its
\* 300th idle second; once removed, its connection is delivered nothing.
C12_IdleSessionEvicted ==
    /\ [](\A s \in DOMAIN active_sessions : Idle(s) <= 300)
    /\ [][SweepEvictsIdle /\ NothingAfterEviction]_vars

\* C12 witness: the only connection opened, idle for 360 s, was evicted by
\* the pass at 360; it then read a chunk with a sequence_id, and all it was
\* ever delivered is the welcome.
C12_Witness ==
    \E c \in Conns :
        /\ pc[c] = "active"
        /\ \A d \in Conns \ {c} : pc[d] = "new"
        /\ now = 360
        /\ path_id[c] \notin DOMAIN active_sessions
        /\ path_id[c] \notin DOMAIN active_connections
        /\ path_id[c] \notin DOMAIN session_metadata
        /\ data.conn = c
        /\ Sequenced(data.unit)
        /\ Len(outbox[c]) = 1
        /\ outbox[c][1].message_type = "connected"


\* Connection c is the only one opened, its client is there, and its
\* session is in none of the tables: the cleanup task has evicted it.
Evicted(c) ==
    /\ pc[c] = "active"
    /\ peer[c] = "open"
    /\ \A d \in Conns \ {c} : pc[d] = "new"
    /\ path_id[c] \notin DOMAIN active_sessions
    /\ path_id[c] \notin DOMAIN active_connections
    /\ path_id[c] \notin DOMAIN session_metadata

\* C13: a connection whose session the cleanup task has evicted has stopped:
\* it reads no further unit and meets no further timeout of its wait.
C13_EvictionStopsConnection ==
    [][\A c \in Conns : Evicted(c) => ~Reads(c) /\ ~TimesOut(c)]_vars


\* The largest sample magnitude of a buffer, 0 for the buffer without samples.
Peak(buffer) == IF buffer = << >> THEN 0
                ELSE Max({Abs(buffer[i]) : i \in 1..Len(buffer)})

\* C21: what the safety pass returns has no sample above 0.95 of full scale
\* (of 32768); a buffer whose peak is at or below 0.95 comes back sample for
\* sample; and the pass applied to its own result changes nothing.
C21_SafetyPassIdempotent ==
    [][stage' = "postprocess" =>
          /\ 100 * Peak(a_pcm') <= 95 * 32768
          /\ 100 * Peak(a_pcm) <= 95 * 32768 => a_pcm' = a_pcm
          /\ stage = "postprocess" => a_pcm' = a_pcm
      ]_vars


\* C22: what the normalization returns for a buffer that is not silent has
\* no sample above 0.8 of full scale, and a buffer of zeros comes back as it
\* was.
C22_NormalizationBound ==
    [][stage' = "normalize" =>
          /\ Len(a_pcm') = Len(a_pcm)
          /\ Peak(a_pcm) > 0 => 10 * Peak(a_pcm') <= 8 * 32768
          /\ Peak(a_pcm) = 0 => a_pcm' = a_pcm
      ]_vars

\* C22 witness: the buffer of a full-scale negative sample and a small one
\* was normalized: the first is now at 0.8 of full scale.
C22_Witness ==
    /\ stage = "normalize"
    /\ a_in = << -32768, -1000 >>
    /\ a_pcm = << -26213, -799 >>



\* C23: every message the server has sent, of whatever type and from
\* whatever operation (the keepalive broadcast included), carries a
\* session_id and a timestamp in epoch milliseconds.
C23_EveryMessageIdentified ==
    \A w \in Conns : \A i \in 1..Len(outbox[w]) :
        /\ "session_id" \in DOMAIN outbox[w][i]
        /\ "timestamp" \in DOMAIN outbox[w][i]
        /\ outbox[w][i].timestamp = "epoch_ms"



\* The language pair a chunk asks for, with the defaults of lines 374-375,
\* has a language outside the supported set.
UnsupportedPair(unit) ==
    /\ WellFormedChunk(unit)
    /\ LET language_pair == IF "language_pair" \in DOMAIN unit.body
                            THEN unit.body.language_pair ELSE << >>
           source == IF "source" \in DOMAIN language_pair
                     THEN language_pair.source ELSE "en"
           target == IF "target" \in DOMAIN language_pair
                     THEN language_pair.target ELSE "hi"
       IN  source \notin language_mapping \/ target \notin language_mapping

HasAnyError(s) == \E i \in 1..Len(s) : s[i].message_type = "error"

\* C24: a chunk whose language pair is unsupported gets an error message and
\* the session stays active and registered; a well-formed chunk with a
\* sequence_id and a supported pair read on that connection after an error
\* is acknowledged and dispatched: what follows the acknowledgment is the
\* outcome of the translate call, a transcript or its ProcessorError.
C24_UnsupportedPairNotFatal ==
    [][\A c \in Conns :
        /\ (Reads(c) /\ OwnSession(c) /\ UnsupportedPair(data'.unit)) =>
               /\ Grows(c)
               /\ HasAnyError(Sent(c))
               /\ pc'[c] = "active"
               /\ path_id[c] \in DOMAIN active_connections'
               /\ active_connections'[path_id[c]] = c
               /\ path_id[c] \in DOMAIN session_metadata'
               /\ path_id[c] \in DOMAIN active_sessions'
        /\ (Reads(c) /\ OwnSession(c) /\ Sequenced(data'.unit)
               /\ ~UnsupportedPair(data'.unit) /\ HasAnyError(outbox[c])) =>
               /\ Grows(c)
               /\ Len(Sent(c)) = 2
               /\ IsAck(Sent(c)[1], path_id[c], data'.unit.body.sequence_id)
               /\ \/ IsTranscript(Sent(c)[2])
                  \/ IsError(Sent(c)[2], path_id[c], "TRANSLATION_ERROR")
      ]_vars



\* A unit that passes validation as an audio frame: a JSON object with a
\* UUID session_id, a non-empty text audio_chunk and no other message_type.
\* This step is its being read on a connection opened as session_id.
ValidatedFrameOn(session_id) ==
    \E c \in Conns :
        /\ Reads(c)
        /\ pc[c] = "active"
        /\ path_id[c] = session_id
        /\ WellFormedChunk(data'.unit)

\* C25: while a session stays registered, its last-acknowledged sequence
\* number changes only in a step that reads a validated audio frame on a
\* connection of that session; every other step leaves it as it was.
C25_LastAckChangesOnlyByOwnFrame ==
    [][\A session_id \in PathIds :
        (/\ session_id \in DOMAIN session_metadata
         /\ session_id \in DOMAIN session_metadata'
         /\ session_metadata'[session_id].last_acknowledged_seq
                # session_metadata[session_id].last_acknowledged_seq)
            => ValidatedFrameOn(session_id)
      ]_vars



IsConnected(m, session_id) ==
    /\ m.message_type = "connected"
    /\ "session_id" \in DOMAIN m
    /\ m.session_id = session_id

\* C26: the step that takes a connection out of its opening either leaves
\* it active, registered under its id in the three tables and sent exactly
\* one message, connected, as the first it is ever sent; or leaves it closed
\* or rejected with the three tables exactly as they were, the entry of a
\* session active under the same id included.  No later step sends a
\* connection a connected message.
C26_OpenRegistersOrLeavesRegistry ==
    [][\A c \in Conns :
        /\ (pc[c] = "new" /\ pc'[c] # "new") =>
               \/ /\ pc'[c] = "active"
                  /\ path_id'[c] \in DOMAIN active_connections'
                  /\ active_connections'[path_id'[c]] = c
                  /\ path_id'[c] \in DOMAIN session_metadata'
                  /\ path_id'[c] \in DOMAIN active_sessions'
                  /\ outbox[c] = << >>
                  /\ Len(outbox'[c]) = 1
                  /\ IsConnected(outbox'[c][1], path_id'[c])
               \/ /\ pc'[c] \in {"rejected", "closed"}
                  /\ active_connections' = active_connections
                  /\ session_metadata' = session_metadata
                  /\ active_sessions' = active_sessions
        /\ pc[c] # "new" =>
               /\ Grows(c)
               /\ \A i \in 1..Len(Sent(c)) : Sent(c)[i].message_type # "connected"
      ]_vars



\* A unit with invalid structure: text that is not JSON, a JSON value that
\* is not an object, or an object without a UUID text session_id or without
\* a non-empty text audio_chunk.
InvalidStructure(unit) ==
    \/ unit.form \in {"text", "scalar"}
    \/ /\ unit.form = "object"
       /\ ~(/\ "session_id" \in DOMAIN unit.body
            /\ "str" \in DOMAIN unit.body.session_id
            /\ unit.body.session_id.str \in UuidTokens
            /\ "audio_chunk" \in DOMAIN unit.body
            /\ "str" \in DOMAIN unit.body.audio_chunk
            /\ unit.body.audio_chunk.str # "")

\* C27: a unit with invalid structure read on a connection whose session is
\* registered is answered by exactly one message, an error whose code is
\* INVALID_MESSAGE_FORMAT or JSON_PARSE_ERROR; nothing is acknowledged, no
\* chunk is counted as processed or failed, and the connection stays active
\* and registered.
C27_InvalidStructureCodes ==
    [][\A c \in Conns :
        (Reads(c) /\ OwnSession(c) /\ InvalidStructure(data'.unit)) =>
            /\ Grows(c)
            /\ Len(Sent(c)) = 1
            /\ \/ IsError(Sent(c)[1], path_id[c], "INVALID_MESSAGE_FORMAT")
               \/ IsError(Sent(c)[1], path_id[c], "JSON_PARSE_ERROR")
            /\ pc'[c] = "active"
            /\ path_id[c] \in DOMAIN session_metadata'
            /\ session_metadata'[path_id[c]].last_acknowledged_seq
                   = session_metadata[path_id[c]].last_acknowledged_seq
            /\ session_metadata'[path_id[c]].chunks_processed
                   = session_metadata[path_id[c]].chunks_processed
            /\ connection_stats'.failed_translations
                   = connection_stats.failed_translations
      ]_vars



\* C28: while a session stays registered, its message count goes up by
\* exactly one in a step that reads a unit on its connection, and is left as
\* it was by every other step, those that send it a message included.
C28_MessageCountCountsInbound ==
    [][\A c \in Conns :
        (OwnSession(c) /\ path_id[c] \in DOMAIN session_metadata'
            /\ pc'[c] = "active") =>
            session_metadata'[path_id[c]].message_count =
                session_metadata[path_id[c]].message_count
                    + (IF Reads(c) THEN 1 ELSE 0)
      ]_vars



\* C29: a JSON object with message_type keepalive, read on a connection
\* whose session is registered, is answered by nothing and dispatches
\* nothing, with or without an audio_chunk: the client is sent no message,
\* the session's counters and the server's are as they were, and the
\* session's last_activity is the time of the read.
C29_ClientKeepaliveSilent ==
    [][\A c \in Conns :
        (Reads(c) /\ OwnSession(c) /\ data'.unit.form = "object"
            /\ "message_type" \in DOMAIN data'.unit.body
            /\ data'.unit.body.message_type = "keepalive") =>
            /\ outbox' = outbox
            /\ connection_stats' = connection_stats
            /\ OwnSession(c)'
            /\ session_metadata'[path_id[c]].last_acknowledged_seq
                   = session_metadata[path_id[c]].last_acknowledged_seq
            /\ session_metadata'[path_id[c]].chunks_processed
                   = session_metadata[path_id[c]].chunks_processed
            /\ active_sessions'[path_id[c]].last_activity = now
      ]_vars



\* C30: in every state (the tasks are all at an await), a session id is a
\* key of active_sessions exactly when it is a key of active_connections
\* and of session_metadata.
C30_RegistriesAgree ==
    /\ DOMAIN active_sessions = DOMAIN active_connections
    /\ DOMAIN active_sessions = DOMAIN session_metadata



\* C31: for a session present in both active_sessions and session_metadata,
\* the two entries hold the same last-acknowledged sequence number and the
\* same count of processed chunks.
C31_SessionRecordsAgree ==
    \A session_id \in DOMAIN active_sessions \cap DOMAIN session_metadata :
        /\ active_sessions[session_id].last_acknowledged_seq
               = session_metadata[session_id].last_acknowledged_seq
        /\ active_sessions[session_id].chunks_processed
               = session_metadata[session_id].chunks_processed



\* Connection c is the one registered under its session id.
HoldsRegistration(c) ==
    /\ pc[c] = "active"
    /\ path_id[c] \in DOMAIN active_connections
    /\ active_connections[path_id[c]] = c

\* This step ends connection d: it leaves the loop, or its accept fails.
Ends(d) == pc[d] \in {"new", "active"} /\ pc'[d] = "closed"

\* C32: when a connection ends (it is closed, or its accept fails), every
\* other connection that holds the registration of its session id, the same
\* id included, still holds it afterwards: its id is a key of the three
\* tables and the websocket registered is its own.
C32_CleanupRemovesOwnRegistrationOnly ==
    [][\A c, d \in Conns :
        (c # d /\ Ends(d) /\ HoldsRegistration(c) /\ pc'[c] = "active") =>
            /\ path_id[c] \in DOMAIN active_connections'
            /\ active_connections'[path_id[c]] = c
            /\ path_id[c] \in DOMAIN session_metadata'
            /\ path_id[c] \in DOMAIN active_sessions'
      ]_vars



IsOutcome(m) == IsTranscript(m) \/ m.message_type = "error"

\* The messages of s that are outcomes, in order.
RECURSIVE Outcomes(_)
Outcomes(s) ==
    IF s = << >>
    THEN << >>
    ELSE (IF IsOutcome(s[1]) THEN << s[1] >> ELSE << >>) \o Outcomes(Tail(s))

\* C33: a well-formed audio chunk read on a connection whose session is
\* registered is answered by exactly one outcome message, a transcript or an
\* error, beside its acknowledgment.
C33_OneOutcomePerChunk ==
    [][\A c \in Conns :
        (Reads(c) /\ OwnSession(c) /\ WellFormedChunk(data'.unit)) =>
            /\ Grows(c)
            /\ Len(Outcomes(Sent(c))) = 1
            /\ Len(Sent(c)) = 1 + (IF Sequenced(data'.unit) THEN 1 ELSE 0)
      ]_vars

\* C33 witness: a chunk with a sequence_id was read on a connection holding
\* its registration and the connection's last two messages are its
\* acknowledgment and one error.
C33_Witness ==
    \E c \in Conns :
        /\ data.conn = c
        /\ data.unit.form = "object"
        /\ "sequence_id" \in DOMAIN data.unit.body
        /\ Len(outbox[c]) = 3
        /\ outbox[c][2].message_type = "ack"
        /\ outbox[c][3].message_type = "error"
        /\ outbox[c][3].error_code = "UNEXPECTED_ERROR"



\* C34: total_translations is the sum of successful_translations and
\* failed_translations, and a step that reads a well-formed chunk on a
\* registered session adds one to exactly one of the two.
C34_CountersConsistent ==
    [][/\ connection_stats'.total_translations
              = connection_stats'.successful_translations
                    + connection_stats'.failed_translations
       /\ \A c \in Conns :
            (Reads(c) /\ OwnSession(c) /\ WellFormedChunk(data'.unit)) =>
                (connection_stats'.successful_translations
                     - connection_stats.successful_translations)
                + (connection_stats'.failed_translations
                     - connection_stats.failed_translations) = 1
      ]_vars



\* C35: a sweep removes a session from active_sessions only if more than
\* 300 s have passed since its last_activity; a unit read on a connection
\* of a session in active_sessions sets that last_activity to the time of
\* the read, and no step sets it back.
C35_SweepSparesRecentlyActive ==
    [][/\ Sweeps =>
            \A s \in DOMAIN active_sessions :
                s \notin DOMAIN active_sessions' =>
                    now' - active_sessions[s].last_activity > 300
       /\ \A c \in Conns :
            (Reads(c) /\ path_id[c] \in DOMAIN active_sessions) =>
                /\ path_id[c] \in DOMAIN active_sessions'
                /\ active_sessions'[path_id[c]].last_activity = now'
       /\ \A s \in DOMAIN active_sessions \cap DOMAIN active_sessions' :
            active_sessions'[s].last_activity >= active_sessions[s].last_activity
      ]_vars

\* C35 witness: at 360 s one session has been swept away while another,
\* whose connection read a unit at 60 s and nothing since, exactly 300 s
\* ago, is still registered.
C35_Witness ==
    \E c, d \in Conns :
        /\ now = 360
        /\ pc[c] = "active" /\ pc[d] = "active"
        /\ path_id[c] # path_id[d]
        /\ path_id[c] \notin DOMAIN active_sessions
        /\ data.conn = d
        /\ data.unit.form = "object"
        /\ path_id[d] \in DOMAIN active_sessions
        /\ active_sessions[path_id[d]].last_activity = 60
        /\ path_id[d] \in DOMAIN active_connections
        /\ active_connections[path_id[d]] = d

====
